---------------------------- MODULE Spec2Model ----------------------------
(***************************************************************************)
(* A model of src/main.cpp: the recursive sphere ray tracer (Vec3, Ray,    *)
(* Sphere::intersect, trace) and the render loop of main.                  *)
(*                                                                         *)
(* Numbers are binary floating-point values with a Precision-bit mantissa, *)
(* round-to-nearest-even, NaN and signed infinity, so that the range of    *)
(* the C++ float (1e9 next to 0.001) and its 0/0 = NaN are both present.   *)
(* The exponent is unbounded: the inputs keep every magnitude far inside   *)
(* the range of a 32-bit float, where no overflow or underflow happens.    *)
(***************************************************************************)
EXTENDS Integers, Sequences, FiniteSets

(***************************************************************************)
(* Bounds of the model.                                                    *)
(***************************************************************************)
Precision == 13

MaxSpheres == 2

MaxDepth0 == 3

\* The frame of main is width x height pixels (800 x 600 in the source).
width == 2

height == 2

\* Bind(x, F) is F applied to the value of x, computed once.
Bind(x, F(_)) == CHOOSE r \in {F(v) : v \in {x}} : TRUE

(***************************************************************************)
(* float: <<kind, m, e>> is m * 2^e for kind "num" (m = 0, or              *)
(* 2^(Precision-1) <= |m| < 2^Precision), NaN for kind "nan" and the       *)
(* infinity of sign m for kind "inf".                                      *)
(***************************************************************************)
Mant == 2 ^ Precision

Half == 2 ^ (Precision - 1)

Zero == <<"num", 0, 0>>

NaN == <<"nan", 0, 0>>

Inf(s) == <<"inf", s, 0>>

IsNaN(x) == x[1] = "nan"

IsInf(x) == x[1] = "inf"

Abs(n) == IF n < 0 THEN -n ELSE n

Sgn(n) == IF n < 0 THEN -1 ELSE IF n > 0 THEN 1 ELSE 0

RECURSIVE BitLen(_)
BitLen(n) == IF n = 0 THEN 0 ELSE 1 + BitLen(n \div 2)

\* The float nearest to n * 2^e (ties to even).
Round(n, e) ==
    Bind(Abs(n), LAMBDA a :
    Bind(BitLen(a), LAMBDA L :
        IF a = 0 THEN Zero
        ELSE IF L <= Precision
             THEN <<"num", Sgn(n) * a * 2 ^ (Precision - L), e - (Precision - L)>>
             ELSE Bind(L - Precision, LAMBDA k :
                  Bind(a \div 2 ^ k, LAMBDA q :
                  Bind(a % 2 ^ k, LAMBDA r :
                  Bind(IF r > 2 ^ (k - 1) \/ (r = 2 ^ (k - 1) /\ q % 2 = 1)
                       THEN q + 1 ELSE q, LAMBDA q1 :
                      IF q1 = Mant
                      THEN <<"num", Sgn(n) * Half, e + k + 1>>
                      ELSE <<"num", Sgn(n) * q1, e + k>>))))))

FSign(x) == IF IsNaN(x) THEN 0 ELSE Sgn(x[2])

FNeg(x) == IF IsNaN(x) THEN NaN ELSE <<x[1], -x[2], x[3]>>

FAdd(x, y) ==
    IF IsNaN(x) \/ IsNaN(y) THEN NaN
    ELSE IF IsInf(x) THEN (IF IsInf(y) /\ y[2] # x[2] THEN NaN ELSE x)
    ELSE IF IsInf(y) THEN y
    ELSE IF x[2] = 0 THEN y
    ELSE IF y[2] = 0 THEN x
    ELSE Bind(IF x[3] >= y[3] THEN <<x, y>> ELSE <<y, x>>, LAMBDA p :
             \* p[1] has the larger exponent
             IF p[1][3] - p[2][3] > Precision + 1 THEN p[1]
             ELSE Round(p[1][2] * 2 ^ (p[1][3] - p[2][3]) + p[2][2], p[2][3]))

FSub(x, y) == FAdd(x, FNeg(y))

FMul(x, y) ==
    IF IsNaN(x) \/ IsNaN(y) THEN NaN
    ELSE IF IsInf(x) \/ IsInf(y)
         THEN (IF x[2] = 0 \/ y[2] = 0 THEN NaN ELSE Inf(Sgn(x[2]) * Sgn(y[2])))
    ELSE Round(x[2] * y[2], x[3] + y[3])

FDiv(x, y) ==
    IF IsNaN(x) \/ IsNaN(y) THEN NaN
    ELSE IF IsInf(x) THEN (IF IsInf(y) THEN NaN
                           ELSE Inf(x[2] * (IF y[2] < 0 THEN -1 ELSE 1)))
    ELSE IF IsInf(y) THEN Zero
    ELSE IF y[2] = 0 THEN (IF x[2] = 0 THEN NaN ELSE Inf(Sgn(x[2])))
    ELSE Bind(Abs(x[2]) * 2 ^ (Precision + 2), LAMBDA num :
             \* the quotient with one more bit, set when the division is inexact
             Round(Sgn(x[2]) * Sgn(y[2])
                     * (2 * (num \div Abs(y[2]))
                          + (IF num % Abs(y[2]) = 0 THEN 0 ELSE 1)),
                   x[3] - y[3] - (Precision + 2) - 1))

\* Newton's iteration for the integer square root, from a guess g >= sqrt(n).
RECURSIVE ISqrtFrom(_, _)
ISqrtFrom(n, g) ==
    Bind((g + n \div g) \div 2, LAMBDA g1 :
        IF g1 >= g THEN g ELSE ISqrtFrom(n, g1))

ISqrt(n) == IF n = 0 THEN 0 ELSE ISqrtFrom(n, 2 ^ ((BitLen(n) + 1) \div 2))

FSqrt(x) ==
    IF IsNaN(x) THEN NaN
    ELSE IF x[2] < 0 THEN NaN
    ELSE IF IsInf(x) THEN x
    ELSE IF x[2] = 0 THEN Zero
    ELSE \* an even exponent e and the mantissa m scaled by 2^sh
         Bind(IF x[3] % 2 = 1 THEN <<2 * x[2], x[3] - 1>> ELSE <<x[2], x[3]>>, LAMBDA me :
         Bind(2 * ((Precision + 2) \div 2), LAMBDA sh :
         Bind(me[1] * 2 ^ sh, LAMBDA n :
         Bind(ISqrt(n), LAMBDA r :
             Round(2 * r + (IF r * r = n THEN 0 ELSE 1), (me[2] - sh) \div 2 - 1)))))

\* The comparisons of float: false as soon as an operand is NaN.
FLt(x, y) == ~IsNaN(x) /\ ~IsNaN(y) /\ x # y /\ FSign(FSub(x, y)) < 0

FGt(x, y) == FLt(y, x)

FGe(x, y) == ~IsNaN(x) /\ ~IsNaN(y) /\ ~FLt(x, y)

FLe(x, y) == FGe(y, x)

\* An int converted to float, and a decimal literal p/q as the nearest float.
FInt(n) == Round(n, 0)

FDec(p, q) == FDiv(FInt(p), FInt(q))

\* std::max(a, b) is (a < b) ? b : a and std::min(a, b) is (b < a) ? b : a.
FMax(a, b) == IF FLt(a, b) THEN b ELSE a

FMin(a, b) == IF FLt(b, a) THEN b ELSE a

(***************************************************************************)
(* struct Vec3: <<x, y, z>>.                                               *)
(***************************************************************************)
Vec3(x, y, z) == <<x, y, z>>

VAdd(u, v) == Vec3(FAdd(u[1], v[1]), FAdd(u[2], v[2]), FAdd(u[3], v[3]))

VSub(u, v) == Vec3(FSub(u[1], v[1]), FSub(u[2], v[2]), FSub(u[3], v[3]))

VScale(u, s) == Vec3(FMul(u[1], s), FMul(u[2], s), FMul(u[3], s))

VMul(u, v) == Vec3(FMul(u[1], v[1]), FMul(u[2], v[2]), FMul(u[3], v[3]))

VDiv(u, s) == Vec3(FDiv(u[1], s), FDiv(u[2], s), FDiv(u[3], s))

normalize(u) ==
    Bind(FSqrt(FAdd(FAdd(FMul(u[1], u[1]), FMul(u[2], u[2])), FMul(u[3], u[3]))),
         LAMBDA mag : Vec3(FDiv(u[1], mag), FDiv(u[2], mag), FDiv(u[3], mag)))

dot(u, v) == FAdd(FAdd(FMul(u[1], v[1]), FMul(u[2], v[2])), FMul(u[3], v[3]))

(***************************************************************************)
(* struct Ray and struct Sphere.                                           *)
(***************************************************************************)
Ray(origin, direction) == [origin |-> origin, direction |-> direction]

Sphere(center, radius, color) == [center |-> center, radius |-> radius, color |-> color]

\* The quadratic of Sphere::intersect: its discriminant and, when that is
\* not negative, its two roots (NaN stands for "not computed").
quadratic(sphere, ray) ==
    Bind(VSub(ray.origin, sphere.center), LAMBDA oc :
    Bind(dot(ray.direction, ray.direction), LAMBDA a :
    Bind(FMul(FInt(2), dot(oc, ray.direction)), LAMBDA b :
    Bind(FSub(dot(oc, oc), FMul(sphere.radius, sphere.radius)), LAMBDA c :
    Bind(FSub(FMul(b, b), FMul(FMul(FInt(4), a), c)), LAMBDA discriminant :
        IF FLt(discriminant, Zero)
        THEN [discriminant |-> discriminant, t0 |-> NaN, t1 |-> NaN]
        ELSE [discriminant |-> discriminant,
              t0 |-> FDiv(FSub(FNeg(b), FSqrt(discriminant)), FMul(FInt(2), a)),
              t1 |-> FDiv(FAdd(FNeg(b), FSqrt(discriminant)), FMul(FInt(2), a))])))))

\* t = (t0 < t1) ? t0 : t1;  if (t < 0) t = (t0 > t1) ? t0 : t1;
selectRootNoFallback(t0, t1) == IF FLt(t0, t1) THEN t0 ELSE t1

selectRoot(t0, t1) ==
    Bind(IF FLt(t0, t1) THEN t0 ELSE t1, LAMBDA t :
        IF FLt(t, Zero) THEN (IF FGt(t0, t1) THEN t0 ELSE t1) ELSE t)

\* bool Sphere::intersect(const Ray&, float& t): hit is the value returned;
\* t is the out parameter, left unwritten (modelled as NaN, never read by
\* the callers) when the discriminant is negative.
intersect(sphere, ray) ==
    Bind(quadratic(sphere, ray), LAMBDA q :
        IF FLt(q.discriminant, Zero)
        THEN [hit |-> FALSE, t |-> NaN]
        ELSE Bind(selectRoot(q.t0, q.t1), LAMBDA t : [hit |-> FGe(t, Zero), t |-> t]))

(***************************************************************************)
(* Vec3 trace(ray, spheres, lightPos, depth).                              *)
(***************************************************************************)
ZeroVec == Vec3(Zero, Zero, Zero)

NoRay == Ray(ZeroVec, ZeroVec)

\* if (depth > 2) return Vec3(0.1f, 0.1f, 0.1f);
depthCutoffLate(depth) == depth > 3

depthCutoff(depth) == depth > 2

depthColorBlack == Vec3(Zero, Zero, Zero)

depthColor == Vec3(FDec(1, 10), FDec(1, 10), FDec(1, 10))

\* return Vec3(0.1f, 0.1f, 0.1f); // Background color
backgroundColor == Vec3(FDec(1, 10), FDec(1, 10), FDec(1, 10))

\* float nearest = 1e9;  const Sphere* hitSphere = nullptr (index 0).
nearestInit == FInt(1000000000)

\* if (sphere.intersect(ray, t)) { if (t < nearest) { ... } }
takesWithoutHit(r, nearest) == FLt(r.t, nearest)

takes(r, nearest) == r.hit /\ FLt(r.t, nearest)

\* The nearest-hit loop from sphere i on: the final nearest and hitSphere,
\* and the result of every intersect call it made (scan).
RECURSIVE nearestLoop(_, _, _, _, _)
nearestLoop(spheres, ray, i, nearest, hitSphere) ==
    IF i > Len(spheres)
    THEN [nearest |-> nearest, hitSphere |-> hitSphere, scan |-> <<>>]
    ELSE Bind(intersect(spheres[i], ray), LAMBDA r :
         Bind(IF takes(r, nearest)
              THEN nearestLoop(spheres, ray, i + 1, r.t, i)
              ELSE nearestLoop(spheres, ray, i + 1, nearest, hitSphere), LAMBDA rest :
             [rest EXCEPT !.scan = <<r>> \o rest.scan]))

\* &sphere != hitSphere
otherSphereAlways(i, hitSphere) == TRUE

otherSphere(i, hitSphere) == i # hitSphere

\* The shadow loop from sphere i on: inShadow, and the spheres whose
\* intersect was called before the loop ended (tested).
RECURSIVE shadowLoop(_, _, _, _)
shadowLoop(spheres, hitSphere, shadowRay, i) ==
    IF i > Len(spheres)
    THEN [inShadow |-> FALSE, tested |-> {}]
    ELSE IF otherSphere(i, hitSphere)
         THEN IF intersect(spheres[i], shadowRay).hit
              THEN [inShadow |-> TRUE, tested |-> {i}]
              ELSE Bind(shadowLoop(spheres, hitSphere, shadowRay, i + 1), LAMBDA rest :
                       [rest EXCEPT !.tested = rest.tested \union {i}])
         ELSE shadowLoop(spheres, hitSphere, shadowRay, i + 1)

\* baseColor = hitSphere->color * diff; if (inShadow) baseColor = baseColor * 0.2f;
baseColorOf(color, diff, inShadow) ==
    IF inShadow THEN VScale(VScale(color, diff), FDec(2, 10)) ELSE VScale(color, diff)

\* finalColor = baseColor * (1.0f - reflectivity) + reflectedColor * reflectivity
composite(baseColor, reflectedColor) ==
    Bind(FDec(5, 10), LAMBDA reflectivity :
        VAdd(VScale(baseColor, FSub(FInt(1), reflectivity)),
             VScale(reflectedColor, reflectivity)))

\* What a call of trace reports when it did nothing yet.
NoCall ==
    [kind |-> "none", depth |-> 0, ray |-> NoRay, scan |-> <<>>,
     hitSphere |-> 0, nearest |-> nearestInit, diff |-> Zero,
     shadowCast |-> FALSE, shadowRay |-> NoRay, inShadow |-> FALSE,
     tested |-> {}, baseColor |-> ZeroVec,
     reflectCast |-> FALSE, reflectRay |-> NoRay, color |-> ZeroVec]

\* Lines 76-102: the shading of the hit of sphere hitSphere at nearest.
shade(ray, spheres, lightPos, hitSphere, nearest) ==
    Bind(VAdd(ray.origin, VScale(ray.direction, nearest)), LAMBDA hitPoint :
    Bind(normalize(VSub(hitPoint, spheres[hitSphere].center)), LAMBDA normal :
    Bind(normalize(VSub(lightPos, hitPoint)), LAMBDA lightDir :
    Bind(FMax(dot(normal, lightDir), Zero), LAMBDA diff :
    Bind(Ray(VAdd(hitPoint, VScale(normal, FDec(1, 1000))), lightDir), LAMBDA shadowRay :
    Bind(shadowLoop(spheres, hitSphere, shadowRay, 1), LAMBDA sh :
    Bind(normalize(VSub(ray.direction,
                        VScale(VScale(normal, FInt(2)), dot(ray.direction, normal)))),
         LAMBDA reflectDir :
        [diff |-> diff, shadowRay |-> shadowRay,
         inShadow |-> sh.inShadow, tested |-> sh.tested,
         baseColor |-> baseColorOf(spheres[hitSphere].color, diff, sh.inShadow),
         reflectRay |-> Ray(VAdd(hitPoint, VScale(normal, FDec(1, 1000))),
                            reflectDir)])))))))

\* One call of trace up to its return or its recursive call.
traceCall(ray, spheres, lightPos, depth) ==
    IF depthCutoff(depth)
    THEN [NoCall EXCEPT !.kind = "cutoff", !.depth = depth, !.ray = ray,
                        !.color = depthColor]
    ELSE Bind(nearestLoop(spheres, ray, 1, nearestInit, 0), LAMBDA n :
             IF n.hitSphere # 0
             THEN Bind(shade(ray, spheres, lightPos, n.hitSphere, n.nearest), LAMBDA s :
                      [NoCall EXCEPT !.kind = "hit", !.depth = depth, !.ray = ray,
                                     !.scan = n.scan, !.hitSphere = n.hitSphere,
                                     !.nearest = n.nearest, !.diff = s.diff,
                                     !.shadowCast = TRUE, !.shadowRay = s.shadowRay,
                                     !.inShadow = s.inShadow, !.tested = s.tested,
                                     !.baseColor = s.baseColor,
                                     !.reflectCast = TRUE, !.reflectRay = s.reflectRay])
             ELSE [NoCall EXCEPT !.kind = "miss", !.depth = depth, !.ray = ray,
                                 !.scan = n.scan, !.color = backgroundColor])

(***************************************************************************)
(* The state: the scene and the light, the call stack of trace, and the    *)
(* render loop of main.                                                    *)
(***************************************************************************)
VARIABLES
    spheres,         \* std::vector<Sphere> spheres
    lightPos,        \* Vec3 lightPos
    depth0,          \* the depth argument of the outermost call of trace
    pc,              \* "idle", "call" (cur is about to run) or "ret" (ret was returned)
    cur,             \* the arguments [ray, depth] of the call about to run
    stack,           \* the calls waiting for their reflection: [depth, baseColor]
    ret,             \* the color last returned: [valid, kind, depth, color]
    last,            \* what the call that ran last did (traceCall)
    nrays,           \* rays scanned against the scene by the nearest-hit loop
    nshadow,         \* shadow rays cast
    steps,           \* calls and returns since the outermost call
    running,         \* bool running
    mpc,             \* where main is
    px, py,          \* int x, y of the pixel loops
    calls,           \* the pixels given to the pixel sink in this frame
    lastRGB,         \* the channels given to SDL_SetRenderDrawColor last
    framePresented,  \* SDL_RenderPresent ran for the pixels in calls
    framesAfterQuit  \* frames presented since SDL_QUIT was seen

mainVars == <<running, mpc, px, py, calls, lastRGB, framePresented, framesAfterQuit>>

vars == <<spheres, lightPos, depth0, pc, cur, stack, ret, last, nrays, nshadow, steps,
          running, mpc, px, py, calls, lastRGB, framePresented, framesAfterQuit>>

NoRet == [valid |-> FALSE, kind |-> "none", depth |-> 0, color |-> ZeroVec]

\* trace(ray, spheres, lightPos, depth) is entered: lines 60-103 run up to
\* the return of a color or to the recursive call for the reflection.
TraceCall ==
    /\ pc = "call"
    /\ \E c \in {traceCall(cur.ray, spheres, lightPos, cur.depth)} :
           /\ last' = c
           /\ nrays' = nrays + (IF c.kind = "cutoff" THEN 0 ELSE 1)
           /\ nshadow' = nshadow + (IF c.shadowCast THEN 1 ELSE 0)
           /\ IF c.kind = "hit"
              THEN /\ stack' = Append(stack, [depth |-> cur.depth, baseColor |-> c.baseColor])
                   /\ cur' = [ray |-> c.reflectRay, depth |-> cur.depth + 1]
                   /\ pc' = "call"
                   /\ ret' = ret
              ELSE /\ ret' = [valid |-> TRUE, kind |-> c.kind, depth |-> cur.depth,
                              color |-> c.color]
                   /\ pc' = "ret"
                   /\ UNCHANGED <<stack, cur>>
    /\ steps' = steps + 1
    /\ UNCHANGED <<spheres, lightPos, depth0>>
    /\ UNCHANGED mainVars

\* The recursive call of line 103 returned: lines 106-108 mix and return.
TraceReturn ==
    /\ pc = "ret"
    /\ stack # <<>>
    /\ ret' = [valid |-> TRUE, kind |-> "hit", depth |-> stack[Len(stack)].depth,
                color |-> composite(stack[Len(stack)].baseColor, ret.color)]
    /\ stack' = SubSeq(stack, 1, Len(stack) - 1)
    /\ steps' = steps + 1
    /\ UNCHANGED <<spheres, lightPos, depth0, pc, cur, last, nrays, nshadow>>
    /\ UNCHANGED mainVars

\* The outermost call has returned; ret.color is its value.
Finished == pc = "ret" /\ stack = <<>>

(***************************************************************************)
(* trace on its own: the scene, the ray, the light and the depth are       *)
(* drawn from bounded sets.                                                *)
(***************************************************************************)
V(x, y, z) == Vec3(FInt(x), FInt(y), FInt(z))

\* A unit sphere on the -z axis; a larger one behind it; one off the axis,
\* between the first one and the light Lights[1]; one beyond that light;
\* one 1.5e9 away on the axis; one of radius 0 in front of the first.
Catalogue ==
    << Sphere(V(0, 0, -10), FInt(1), Vec3(FInt(1), Zero, Zero)),
       Sphere(V(0, 0, -20), FInt(2), Vec3(Zero, FInt(1), Zero)),
       Sphere(V(0, 4, -6), FInt(1), Vec3(Zero, Zero, FInt(1))),
       Sphere(V(0, 16, 3), FInt(1), Vec3(FDec(8, 10), FDec(8, 10), FDec(8, 10))),
       Sphere(V(0, 0, -2000000000), FInt(500000000), Vec3(FInt(1), FInt(1), Zero)),
       Sphere(V(0, 0, -5), Zero, Vec3(FInt(1), Zero, FInt(1))) >>

Injective(f) == \A i, j \in DOMAIN f : f[i] = f[j] => i = j

Scenes ==
    { [i \in 1..Len(ix) |-> Catalogue[ix[i]]] :
        ix \in { f \in UNION { [1..n -> 1..Len(Catalogue)] : n \in 0..MaxSpheres } :
                   Injective(f) } }

\* From the origin down and up the z axis, from the centre of the first
\* sphere, and along a tangent of the first sphere.
Rays ==
    { Ray(V(0, 0, 0), V(0, 0, -1)),
      Ray(V(0, 0, 0), V(0, 0, 1)),
      Ray(V(0, 0, -10), V(0, 0, -1)),
      Ray(V(0, 1, 0), V(0, 0, -1)) }

\* Above the axis, and on the surface of the first sphere.
Lights == << V(0, 8, -3), V(0, 0, -9) >>

InitMainIdle ==
    /\ running = TRUE
    /\ mpc = "none"
    /\ px = 0
    /\ py = 0
    /\ calls = <<>>
    /\ lastRGB = <<0, 0, 0>>
    /\ framePresented = FALSE
    /\ framesAfterQuit = 0

InitTrace ==
    /\ spheres \in Scenes
    /\ lightPos \in {Lights[i] : i \in DOMAIN Lights}
    /\ depth0 \in 0..MaxDepth0
    /\ cur \in {[ray |-> r, depth |-> depth0] : r \in Rays}
    /\ pc = "call"
    /\ stack = <<>>
    /\ ret = NoRet
    /\ last = NoCall
    /\ nrays = 0
    /\ nshadow = 0
    /\ steps = 0
    /\ InitMainIdle

NextTrace == TraceCall \/ TraceReturn

SpecTrace == InitTrace /\ [][NextTrace]_vars

(***************************************************************************)
(* Properties of trace and Sphere::intersect, checked under SpecTrace.     *)
(***************************************************************************)
AnyHit(scan) == \E i \in DOMAIN scan : scan[i].hit

Min(a, b) == IF a < b THEN a ELSE b

InUnit(color) == \A k \in 1..3 : FGe(color[k], Zero) /\ FLe(color[k], FInt(1))

Ambient == Vec3(FDec(1, 10), FDec(1, 10), FDec(1, 10))

\* C1: every call of trace terminates: a call at depth d >= 0 takes at most
\* 2 * (3 - min(d, 3)) + 1 calls and returns, and until it has returned a
\* call or a return is always the next step; from depth 0 at most 3 rays (depth 0, 1 and 2) are scanned
\* against the scene, no call is deeper than depth 3, and the call at depth
\* 3 returns without scanning a sphere and without recursing.
C1_TraceTerminates ==
    /\ steps <= 2 * (3 - Min(depth0, 3)) + 1
    /\ Finished \/ pc = "call" \/ (pc = "ret" /\ stack # <<>>)
    /\ depth0 = 0 =>
         /\ cur.depth <= 3
         /\ nrays <= 3
         /\ last.kind \in {"hit", "miss"} => last.depth <= 2
    /\ (last.kind # "none" /\ last.depth >= 3) =>
         /\ last.kind = "cutoff"
         /\ last.scan = <<>>
         /\ ~last.shadowCast
         /\ ~last.reflectCast
         /\ pc = "ret"

\* A primary call at depth 0 has returned after three rays were scanned and
\* the call at depth 3 was cut off.
C1_Witness ==
    /\ depth0 = 0
    /\ Finished
    /\ nrays = 3
    /\ steps = 7
    /\ last.kind = "cutoff"
    /\ last.depth = 3

\* C2: a call of trace with depth > 2 returns exactly (0.1, 0.1, 0.1),
\* whatever the ray, the scene and the light.
C2_DepthCutoffColor ==
    /\ (last.kind # "none" /\ last.depth > 2) =>
         last.kind = "cutoff" /\ last.color = Ambient
    /\ (ret.valid /\ ret.depth > 2) => ret.color = Ambient

\* A call at depth > 2 whose ray hits a sphere of the scene has returned.
C2_Witness ==
    /\ ret.valid
    /\ ret.depth > 2
    /\ last.depth = ret.depth
    /\ \E i \in 1..Len(spheres) : intersect(spheres[i], last.ray).hit

\* C3: intersect reports a hit exactly when the discriminant is >= 0 and a
\* root is >= 0, and t is then the smallest non-negative root: t0 when
\* t0 >= 0, otherwise t1.
C3_IntersectSmallestRoot ==
    \A i \in DOMAIN last.scan :
        \A q \in {quadratic(spheres[i], last.ray)} :
            /\ last.scan[i].hit <=>
                 /\ FGe(q.discriminant, Zero)
                 /\ FGe(q.t0, Zero) \/ FGe(q.t1, Zero)
            /\ last.scan[i].hit =>
                 /\ last.scan[i].t = IF FGe(q.t0, Zero) THEN q.t0 ELSE q.t1
                 /\ FGe(q.t0, Zero) => FLe(last.scan[i].t, q.t0)
                 /\ FGe(q.t1, Zero) => FLe(last.scan[i].t, q.t1)

\* A hit from inside a sphere: the smaller root is negative and the larger
\* one is reported.
C3_Witness ==
    \E i \in DOMAIN last.scan :
        /\ last.scan[i].hit
        /\ FLt(quadratic(spheres[i], last.ray).t0, Zero)
        /\ last.scan[i].t = quadratic(spheres[i], last.ray).t1

\* C4: at depth 0..2, when no sphere is intersected by the ray, trace
\* returns the background color (0.1, 0.1, 0.1) at once, without a shadow
\* ray and without a reflection ray; so it does for every ray when the
\* scene is empty.
C4_MissReturnsBackground ==
    /\ (last.kind # "none" /\ last.depth <= 2) => Len(last.scan) = Len(spheres)
    /\ (last.kind # "none" /\ last.depth <= 2 /\ ~AnyHit(last.scan)) =>
         /\ last.kind = "miss"
         /\ last.color = Ambient
         /\ ~last.shadowCast
         /\ ~last.reflectCast
         /\ pc = "ret"
    /\ (ret.valid /\ ret.kind = "miss") => ret.color = Ambient

\* A ray that misses every sphere of a scene that is not empty.
C4_Witness ==
    /\ last.kind = "miss"
    /\ last.depth <= 2
    /\ Len(spheres) >= 1
    /\ ret.kind = "miss"
    /\ ret.depth = last.depth

SceneColorsInUnit == \A i \in 1..Len(spheres) : InUnit(spheres[i].color)

ScenePositiveRadii == \A i \in 1..Len(spheres) : FGt(spheres[i].radius, Zero)

\* C7: with sphere colors in [0, 1], every color trace returns, at any
\* depth, has its components in [0, 1] (stated here for the scenes whose
\* radii are all positive).
C7_ColorsInUnitRange ==
    (SceneColorsInUnit /\ ScenePositiveRadii /\ ret.valid) => InUnit(ret.color)

\* C8: at depth 0..2, whenever a sphere is intersected by the ray, trace
\* shades a hit, and of a sphere whose t is the smallest of the hits.
C8_NearestHitIsShaded ==
    (last.kind # "none" /\ last.depth <= 2 /\ AnyHit(last.scan)) =>
        /\ last.kind = "hit"
        /\ last.scan[last.hitSphere].hit
        /\ \A j \in DOMAIN last.scan :
               last.scan[j].hit => FLe(last.scan[last.hitSphere].t, last.scan[j].t)

OtherSpheres == (1..Len(spheres)) \ {last.hitSphere}

\* C9: at a hit, inShadow is true exactly when a sphere other than the one
\* hit intersects the shadow ray; the sphere hit is never tested; the base
\* color is color * diff, times 0.2 when in shadow.
C9_ShadowByOtherSpheres ==
    last.kind = "hit" =>
        /\ last.inShadow <=>
             \E i \in OtherSpheres : intersect(spheres[i], last.shadowRay).hit
        /\ last.hitSphere \notin last.tested
        /\ last.baseColor =
             IF last.inShadow
             THEN VScale(VScale(spheres[last.hitSphere].color, last.diff), FDec(2, 10))
             ELSE VScale(spheres[last.hitSphere].color, last.diff)

\* A lit point (diff > 0) shadowed by another sphere.
C9_Witness ==
    /\ last.kind = "hit"
    /\ last.inShadow
    /\ FGt(last.diff, Zero)
    /\ last.baseColor # ZeroVec

\* The distance from the origin of the shadow ray to the light.
lightDistance ==
    FSqrt(dot(VSub(lightPos, last.shadowRay.origin),
              VSub(lightPos, last.shadowRay.origin)))

\* C10: a point is in shadow only when a sphere intersects the shadow ray
\* between the point and the light (at a parameter of at most the distance
\* to the light); stated here for the points that face the light
\* (diff > 0), in scenes whose radii are all positive.
C10_ShadowOnlyBeforeLight ==
    (ScenePositiveRadii /\ last.kind = "hit" /\ last.inShadow /\ FGt(last.diff, Zero)) =>
        \E i \in OtherSpheres :
            \E r \in {intersect(spheres[i], last.shadowRay)} :
                r.hit /\ FLe(r.t, lightDistance)

(***************************************************************************)
(* int main: the scene, the event and render loop, the pixel sink.         *)
(***************************************************************************)
\* std::vector<Sphere> spheres = { ... };
mainScene ==
    << Sphere(V(-2, 0, -10), FInt(1), Vec3(FInt(1), Zero, Zero)),
       Sphere(V(0, 0, -10), FInt(1), Vec3(Zero, FInt(1), Zero)),
       Sphere(V(2, 0, -10), FInt(1), Vec3(Zero, Zero, FInt(1))),
       Sphere(V(0, -10004, -10), FInt(10000),
              Vec3(FDec(8, 10), FDec(8, 10), FDec(8, 10))) >>

\* The values <<cos(time), sin(time)>> of the frames: time = 0, and a time
\* with cosine 0.6 and sine 0.8.
CosSin == { <<FInt(1), Zero>>, <<FDec(6, 10), FDec(8, 10)>> }

\* Vec3 lightPos(radius * cos(time), 5.0f, radius * sin(time) - 10.0f), radius = 5.0f
lightAt(cs) ==
    Vec3(FMul(FInt(5), cs[1]), FInt(5), FSub(FMul(FInt(5), cs[2]), FInt(10)))

\* while (running)
loopForever(run) == TRUE

loopCondition(run) == run

\* Lines 148-151: the camera ray of pixel (x, y).
cameraRay(x, y) ==
    Bind(FMul(FSub(FDiv(FMul(FInt(2), FAdd(FInt(x), FDec(5, 10))), FInt(width)),
                   FInt(1)),
              FDiv(FInt(width), FInt(height))), LAMBDA u :
    Bind(FSub(FInt(1), FDiv(FMul(FInt(2), FAdd(FInt(y), FDec(5, 10))), FInt(height))),
         LAMBDA v :
        Ray(Vec3(Zero, Zero, Zero), normalize(Vec3(u, v, FInt(-1))))))

\* The integer part of a float of magnitude below 2^31.
FTrunc(x) ==
    IF x[3] >= 0 THEN x[2] * 2 ^ x[3]
    ELSE IF -x[3] > Precision THEN 0
    ELSE Sgn(x[2]) * (Abs(x[2]) \div 2 ^ (-x[3]))

\* (Uint8)(std::min(c, 1.0f) * 255): the values the conversion can give.
\* Out of the range of Uint8 (or NaN) it is undefined: any value.
toUint8(c) ==
    Bind(FMul(FMin(c, FInt(1)), FInt(255)), LAMBDA f :
        IF IsNaN(f) \/ IsInf(f) \/ FLe(f, FInt(-1)) \/ FGe(f, FInt(256))
        THEN 0..255
        ELSE {FTrunc(f)})

\* for (int y = 0; y < height; ++y) { for (int x = 0; x < width; ++x) { ... } }
\* where the loops stand with the counters at x, y: at the body of a pixel
\* or past both loops.
RECURSIVE loopToInclusive(_, _)
loopToInclusive(x, y) ==
    IF y < height
    THEN IF x <= width
         THEN [mpc |-> "pixel", px |-> x, py |-> y]
         ELSE loopToInclusive(0, y + 1)
    ELSE [mpc |-> "present", px |-> x, py |-> y]

RECURSIVE loopTo(_, _)
loopTo(x, y) ==
    IF y < height
    THEN IF x < width
         THEN [mpc |-> "pixel", px |-> x, py |-> y]
         ELSE loopTo(0, y + 1)
    ELSE [mpc |-> "present", px |-> x, py |-> y]

sceneVars == <<spheres, depth0>>

\* while (running): line 133.
LoopTest ==
    /\ mpc = "test"
    /\ mpc' = IF loopCondition(running) THEN "poll" ELSE "exit"
    /\ UNCHANGED <<running, px, py, calls, lastRGB, framePresented, framesAfterQuit>>
    /\ UNCHANGED <<lightPos, pc, cur, stack, ret, last, nrays, nshadow, steps>>
    /\ UNCHANGED sceneVars

\* Lines 134-146: the events are polled (quit: an SDL_QUIT was among
\* them), the light is placed, the frame is cleared and the pixel loops
\* are entered.
FrameStart ==
    /\ mpc = "poll"
    /\ \E quit \in BOOLEAN : running' = (running /\ ~quit)
    /\ \E cs \in CosSin : lightPos' = lightAt(cs)
    /\ calls' = <<>>
    /\ framePresented' = FALSE
    /\ \E p \in {loopTo(0, 0)} : mpc' = p.mpc /\ px' = p.px /\ py' = p.py
    /\ UNCHANGED <<lastRGB, framesAfterQuit>>
    /\ UNCHANGED <<pc, cur, stack, ret, last, nrays, nshadow, steps>>
    /\ UNCHANGED sceneVars

\* Lines 148-152: the camera ray of the pixel is built and trace is called
\* with depth 0.
PixelTrace ==
    /\ mpc = "pixel"
    /\ cur' = [ray |-> cameraRay(px, py), depth |-> 0]
    /\ pc' = "call"
    /\ stack' = <<>>
    /\ nrays' = 0
    /\ nshadow' = 0
    /\ steps' = 0
    /\ mpc' = "trace"
    /\ UNCHANGED <<ret, last, lightPos>>
    /\ UNCHANGED <<running, px, py, calls, lastRGB, framePresented, framesAfterQuit>>
    /\ UNCHANGED sceneVars

\* Lines 154-159 and the loop headers: trace has returned, the color is
\* clamped and quantized, the pixel is drawn and the loops step.
PixelDraw ==
    /\ mpc = "trace"
    /\ Finished
    /\ \E r \in toUint8(ret.color[1]), g \in toUint8(ret.color[2]),
          b \in toUint8(ret.color[3]) : lastRGB' = <<r, g, b>>
    /\ calls' = Append(calls, <<px, py>>)
    /\ \E p \in {loopTo(px + 1, py)} : mpc' = p.mpc /\ px' = p.px /\ py' = p.py
    /\ pc' = "idle"
    /\ UNCHANGED <<running, framePresented, framesAfterQuit>>
    /\ UNCHANGED <<lightPos, cur, stack, ret, last, nrays, nshadow, steps>>
    /\ UNCHANGED sceneVars

\* SDL_RenderPresent(renderer): line 163.
Present ==
    /\ mpc = "present"
    /\ framePresented' = TRUE
    /\ framesAfterQuit' = IF running THEN 0 ELSE framesAfterQuit + 1
    /\ mpc' = "test"
    /\ UNCHANGED <<running, px, py, calls, lastRGB>>
    /\ UNCHANGED <<lightPos, pc, cur, stack, ret, last, nrays, nshadow, steps>>
    /\ UNCHANGED sceneVars

\* Lines 166-170: the loop was left; the window is destroyed, main returns.
Quit ==
    /\ mpc = "exit"
    /\ mpc' = "end"
    /\ UNCHANGED <<running, px, py, calls, lastRGB, framePresented, framesAfterQuit>>
    /\ UNCHANGED <<lightPos, pc, cur, stack, ret, last, nrays, nshadow, steps>>
    /\ UNCHANGED sceneVars

InitMain ==
    /\ spheres = mainScene
    /\ lightPos = ZeroVec
    /\ depth0 = 0
    /\ pc = "idle"
    /\ cur = [ray |-> NoRay, depth |-> 0]
    /\ stack = <<>>
    /\ ret = NoRet
    /\ last = NoCall
    /\ nrays = 0
    /\ nshadow = 0
    /\ steps = 0
    /\ running = TRUE
    /\ mpc = "test"
    /\ px = 0
    /\ py = 0
    /\ calls = <<>>
    /\ lastRGB = <<0, 0, 0>>
    /\ framePresented = FALSE
    /\ framesAfterQuit = 0

NextMain ==
    \/ LoopTest
    \/ FrameStart
    \/ PixelTrace
    \/ TraceCall
    \/ TraceReturn
    \/ PixelDraw
    \/ Present
    \/ Quit

SpecMain == InitMain /\ [][NextMain]_vars

(***************************************************************************)
(* Properties of the render loop, checked under SpecMain.                  *)
(***************************************************************************)
Pixels == (0..(width - 1)) \X (0..(height - 1))

TimesDrawn(p) == Cardinality({k \in 1..Len(calls) : calls[k] = p})

\* C5: in every frame the pixel sink is called exactly once for each pixel
\* (x, y) with 0 <= x < width and 0 <= y < height and for no other
\* coordinate, and all width * height calls are made before the frame is
\* presented.
C5_EachPixelOncePerFrame ==
    /\ \A k \in 1..Len(calls) : calls[k] \in Pixels
    /\ \A p \in Pixels : TimesDrawn(p) <= 1
    /\ (mpc = "present" \/ framePresented) => \A p \in Pixels : TimesDrawn(p) = 1

\* A frame has been presented with all its pixels drawn.
C5_Witness ==
    /\ framePresented
    /\ Len(calls) = width * height
    /\ mpc = "test"

\* C6: the loop is left only between frames, after a frame that was drawn
\* in full and presented, also when SDL_QUIT was seen in the poll at the
\* start of that frame's iteration; once SDL_QUIT was seen, exactly that
\* one frame is completed and the loop is left.
C6_NoExitInsideFrame ==
    /\ framesAfterQuit <= 1
    /\ mpc = "test" => (calls = <<>> \/ (framePresented /\ Len(calls) = width * height))
    /\ (~running /\ mpc \in {"pixel", "trace", "present"}) => framesAfterQuit = 0
    /\ mpc \in {"exit", "end"} =>
         /\ ~running
         /\ framePresented
         /\ Len(calls) = width * height
         /\ framesAfterQuit = 1

\* The loop was left after the frame in whose iteration SDL_QUIT was seen.
C6_Witness ==
    /\ mpc = "exit"
    /\ ~running
    /\ framePresented
    /\ framesAfterQuit = 1

=============================================================================
